---- MODULE Spec2Model ----
(***************************************************************************)
(* A model of the cut_json library: the path resolver (navigateToValue),   *)
(* the three rule evaluators, the result assembler (buildResultStructure)  *)
(* and the entry points CutWithRules and CutMultiple.                      *)
(*                                                                         *)
(* A Go string is a sequence of one-character strings, so that             *)
(* strings.Split, the digit loop of navigateToValue and isNumeric are      *)
(* computed character by character.  A decoded JSON value (interface{})    *)
(* is a record [t, v]; a Go map is a reference into the heap, because      *)
(* buildResultStructure stores and later writes through such references.   *)
(***************************************************************************)
EXTENDS Integers, Sequences, FiniteSets, TLC

VARIABLES
    jsonData,   \* CutWithRules: the input bytes
    rules,      \* CutWithRules: the rule list
    pc,         \* position of the call: start, rules, done, panic
    heap,       \* every Go map allocated so far (address -> map)
    data,       \* the parsed document (interface{})
    result,     \* address of applyRules' result map (0: none)
    ri,         \* index of the next rule of the loop in applyRules
    err,        \* the error CutWithRules returns
    output,     \* the bytes CutWithRules returns (Nil: none)
    frags,      \* per applied rule: what it handed to buildResultStructure
    nav,        \* a call of navigateToValue: its arguments and its result
    cm,         \* a call of CutMultiple: its arguments, loop index and map
    load,       \* a call of LoadRulesFromConfig: file, loop index, rules
    cli         \* a call of buildRules (command line): flags and rules

vars == <<jsonData, rules, pc, heap, data, result, ri, err, output, frags,
          nav, cm, load, cli>>
\* The variables of a call of CutWithRules.
callVars == <<jsonData, rules, pc, heap, data, result, ri, err, output, frags>>
toolVars == <<load, cli>>

----------------------------------------------------------------------------
(* Errors *)

NoErr == "nil"
ErrInvalidJSON == "invalid JSON input"
ErrPathNotFound == "path not found in JSON"
ErrInvalidPath == "invalid path format"
ErrInvalidRule == "invalid rule format"
ErrNotArray == "path does not point to an array"
\* A Go run-time panic (index out of range): the call never returns.
Panic == "panic: index out of range"

----------------------------------------------------------------------------
(* Values *)

Null == [t |-> "null", v |-> 0]
Bool(b) == [t |-> "bool", v |-> b]
Num(n) == [t |-> "num", v |-> n]
Str(s) == [t |-> "str", v |-> s]
Arr(s) == [t |-> "arr", v |-> s]
\* A JSON object of a text: keys to JSON values.
Obj(f) == [t |-> "obj", v |-> f]
\* A decoded object: a Go map, held by reference.
MapRef(a) == [t |-> "map", v |-> a]

\* No bytes, no value.
Nil == [t |-> "nil", v |-> 0]

EmptyMap == <<>>
MapSet(m, k, x) == [y \in (DOMAIN m) \cup {k} |-> IF y = k THEN x ELSE m[y]]

----------------------------------------------------------------------------
(* encoding/json *)

RECURSIVE Unmarshal(_, _)
RECURSIVE UnmarshalObj(_, _, _, _)
RECURSIVE UnmarshalArr(_, _, _)

\* Decodes the members `keys` of the object f into the map m.
UnmarshalObj(h, f, keys, m) ==
    IF keys = {} THEN [h |-> h, m |-> m]
    ELSE LET k == CHOOSE x \in keys : TRUE
             r == Unmarshal(h, f[k])
         IN UnmarshalObj(r.h, f, keys \ {k}, MapSet(m, k, r.v))

UnmarshalArr(h, s, acc) ==
    IF s = <<>> THEN [h |-> h, a |-> acc]
    ELSE LET r == Unmarshal(h, Head(s))
         IN UnmarshalArr(r.h, Tail(s), Append(acc, r.v))

\* json.Unmarshal into an interface{}: every object becomes a new map.
Unmarshal(h, tree) ==
    CASE tree.t = "obj" ->
            LET r == UnmarshalObj(h, tree.v, DOMAIN tree.v, EmptyMap)
            IN [h |-> Append(r.h, r.m), v |-> MapRef(Len(r.h) + 1)]
      [] tree.t = "arr" ->
            LET r == UnmarshalArr(h, tree.v, <<>>)
            IN [h |-> r.h, v |-> Arr(r.a)]
      [] OTHER -> [h |-> h, v |-> tree]

RECURSIVE Marshal(_, _)
\* json.Marshal: the text of a value, maps read through their references.
Marshal(h, x) ==
    CASE x.t = "map" -> Obj([k \in DOMAIN h[x.v] |-> Marshal(h, h[x.v][k])])
      [] x.t = "arr" -> Arr([i \in 1..Len(x.v) |-> Marshal(h, x.v[i])])
      [] OTHER -> x

----------------------------------------------------------------------------
(* Go's int: 64 bits, two's complement, as little-endian 16-bit limbs *)

IntBits == 64
LimbBits == IntBits \div 4
Limb == 2^LimbBits

RECURSIVE LimbMulAdd(_, _, _)
\* x*m + c, wrapped to the width of x.
LimbMulAdd(x, m, c) ==
    IF x = <<>> THEN <<>>
    ELSE LET t == Head(x) * m + c
         IN <<t % Limb>> \o LimbMulAdd(Tail(x), m, t \div Limb)

RECURSIVE LimbAdd(_, _, _)
LimbAdd(x, y, c) ==
    IF x = <<>> THEN <<>>
    ELSE LET t == Head(x) + Head(y) + c
         IN <<t % Limb>> \o LimbAdd(Tail(x), Tail(y), t \div Limb)

IntOf(n) == <<n, 0, 0, 0>>
IntNeg(x) == LimbAdd([i \in 1..Len(x) |-> Limb - 1 - x[i]], IntOf(1), 0)
IntIsNeg(x) == x[Len(x)] >= Limb \div 2
\* 0 <= x < n, for a small n.
IntBelow(x, n) == x[2] = 0 /\ x[3] = 0 /\ x[4] = 0 /\ x[1] < n

----------------------------------------------------------------------------
(* strings *)

Dot == "."
Digits == {"0", "1", "2", "3", "4", "5", "6", "7", "8", "9"}
DigitVal(c) ==
    CASE c = "0" -> 0 [] c = "1" -> 1 [] c = "2" -> 2 [] c = "3" -> 3
      [] c = "4" -> 4 [] c = "5" -> 5 [] c = "6" -> 6 [] c = "7" -> 7
      [] c = "8" -> 8 [] c = "9" -> 9

RECURSIVE SplitFrom(_, _, _)
SplitFrom(s, sep, cur) ==
    IF s = <<>> THEN <<cur>>
    ELSE IF Head(s) = sep THEN <<cur>> \o SplitFrom(Tail(s), sep, <<>>)
    ELSE SplitFrom(Tail(s), sep, Append(cur, Head(s)))

\* strings.Split(s, sep) for a one-character separator.
Split(s, sep) == SplitFrom(s, sep, <<>>)

\* isNumeric: an optional '-' followed by at least one digit.
isNumeric(s) ==
    IF Len(s) = 0 THEN FALSE
    ELSE IF s[1] = "-" /\ Len(s) = 1 THEN FALSE
    ELSE LET start == IF s[1] = "-" THEN 2 ELSE 1
         IN \A i \in start..Len(s) : s[i] \in Digits

----------------------------------------------------------------------------
(* Path resolver *)

RECURSIVE ParseIndex(_, _, _)
\* The digit loop of navigateToValue over currentSegment, from character i.
ParseIndex(seg, i, index) ==
    IF i > Len(seg) THEN [err |-> NoErr, index |-> index]
    ELSE IF i = 1 /\ seg[i] = "-" THEN ParseIndex(seg, i + 1, index)
    ELSE IF seg[i] \notin Digits THEN [err |-> ErrInvalidPath, index |-> index]
    ELSE ParseIndex(seg, i + 1, LimbMulAdd(index, 10, DigitVal(seg[i])))

\* The array case of navigateToValue: the element index (1-based here) that
\* currentSegment addresses in an array of length n, or the error.
ArrayIndex(seg, n) ==
    LET p == ParseIndex(seg, 1, IntOf(0))
    IN IF p.err # NoErr THEN [err |-> p.err, at |-> 0]
       ELSE IF Len(seg) = 0 THEN [err |-> Panic, at |-> 0]
       ELSE LET signed == IF seg[1] = "-" THEN IntNeg(p.index) ELSE p.index
                index == IF IntIsNeg(signed)
                         THEN LimbAdd(IntOf(n), signed, 0) ELSE signed
            IN IF IntIsNeg(index) \/ ~IntBelow(index, n)
               THEN [err |-> ErrPathNotFound, at |-> 0]
               ELSE [err |-> NoErr, at |-> index[1] + 1]

RECURSIVE navigateToValue(_, _, _)
navigateToValue(h, x, pathSegments) ==
    IF Len(pathSegments) = 0 THEN [err |-> NoErr, val |-> x]
    ELSE LET currentSegment == pathSegments[1]
             remaining == Tail(pathSegments)
         IN CASE x.t = "map" ->
                    IF currentSegment \notin DOMAIN h[x.v]
                    THEN [err |-> ErrPathNotFound, val |-> Nil]
                    ELSE navigateToValue(h, h[x.v][currentSegment], remaining)
              [] x.t = "arr" ->
                    LET ix == ArrayIndex(currentSegment, Len(x.v))
                    IN IF ix.err # NoErr THEN [err |-> ix.err, val |-> Nil]
                       ELSE navigateToValue(h, x.v[ix.at], remaining)
              [] OTHER -> [err |-> ErrPathNotFound, val |-> Nil]

RECURSIVE valueEquals(_, _, _)
\* reflect.DeepEqual of a decoded value a and an expected JSON value b.
valueEquals(h, a, b) ==
    CASE a.t = "map" ->
            /\ b.t = "obj"
            /\ DOMAIN h[a.v] = DOMAIN b.v
            /\ \A k \in DOMAIN b.v : valueEquals(h, h[a.v][k], b.v[k])
      [] a.t = "arr" ->
            /\ b.t = "arr"
            /\ Len(a.v) = Len(b.v)
            /\ \A i \in 1..Len(a.v) : valueEquals(h, a.v[i], b.v[i])
      [] OTHER -> a = b

----------------------------------------------------------------------------
(* Result assembler *)

RECURSIVE buildFrom(_, _, _, _, _)
\* The loop of buildResultStructure from segment i, at the map `current`.
buildFrom(h, current, pathSegments, i, value) ==
    LET segment == pathSegments[i]
    IN IF i = Len(pathSegments)
       THEN [h EXCEPT ![current] = MapSet(@, segment, value)]
       ELSE LET isNextSegmentArrayIndex ==
                    IF i + 1 <= Len(pathSegments)
                    THEN isNumeric(pathSegments[i + 1]) ELSE FALSE
                h1 == IF segment \in DOMAIN h[current] THEN h
                      ELSE IF isNextSegmentArrayIndex
                      THEN [h EXCEPT ![current] = MapSet(@, segment, Arr(<<>>))]
                      ELSE Append([h EXCEPT ![current] =
                                      MapSet(@, segment, MapRef(Len(h) + 1))],
                                  EmptyMap)
                next == h1[current][segment]
            IN IF next.t = "map"
               THEN buildFrom(h1, next.v, pathSegments, i + 1, value)
               ELSE h1

buildResultStructure(h, res, pathSegments, value) ==
    IF Len(pathSegments) = 0 THEN h
    ELSE buildFrom(h, res, pathSegments, 1, value)

----------------------------------------------------------------------------
(* Rules *)

KeepPath == 0
KeepParentIfValueMatches == 1
KeepArrayElementsIfChildValueMatches == 2

NewKeepPathRule(path) ==
    [Type |-> KeepPath, Path |-> path, Value |-> Null, ChildPath |-> <<>>]
NewKeepParentIfValueMatchesRule(path, value) ==
    [Type |-> KeepParentIfValueMatches, Path |-> path, Value |-> value,
     ChildPath |-> <<>>]
NewKeepArrayElementsIfChildValueMatchesRule(arrayPath, childPath, value) ==
    [Type |-> KeepArrayElementsIfChildValueMatches, Path |-> arrayPath,
     Value |-> value, ChildPath |-> childPath]

\* What a rule evaluator leaves: the heap, its error, and the fragment it
\* handed to buildResultStructure (kept = FALSE: it called it not).
NoFragment == [kept |-> FALSE, path |-> <<>>, val |-> Nil]
Fragment(h, segs, x) == [kept |-> TRUE, path |-> segs, val |-> Marshal(h, x)]
Applied(h, e, f) == [h |-> h, err |-> e, frag |-> f]

applyKeepPathRule(h, d, path, res) ==
    LET pathSegments == Split(path, Dot)
        found == navigateToValue(h, d, pathSegments)
    IN IF found.err # NoErr THEN Applied(h, found.err, NoFragment)
       ELSE Applied(buildResultStructure(h, res, pathSegments, found.val),
                    NoErr, Fragment(h, pathSegments, found.val))

applyKeepParentIfValueMatchesRule(h, d, path, expectedValue, res) ==
    LET pathSegments == Split(path, Dot)
        found == navigateToValue(h, d, pathSegments)
    IN IF found.err # NoErr THEN Applied(h, found.err, NoFragment)
       ELSE IF ~valueEquals(h, found.val, expectedValue)
       THEN Applied(h, NoErr, NoFragment)
       ELSE IF Len(pathSegments) > 1
       THEN LET parentPathSegments ==
                    SubSeq(pathSegments, 1, Len(pathSegments) - 1)
                parent == navigateToValue(h, d, parentPathSegments)
            IN IF parent.err # NoErr THEN Applied(h, parent.err, NoFragment)
               ELSE Applied(buildResultStructure(h, res, parentPathSegments,
                                                 parent.val),
                            NoErr, Fragment(h, parentPathSegments, parent.val))
       ELSE Applied(buildResultStructure(h, res, pathSegments, found.val),
                    NoErr, Fragment(h, pathSegments, found.val))

\* The filter loop: the elements whose child value resolves and matches.
filterElements(h, array, childPathSegments, expectedValue) ==
    SelectSeq(array,
              LAMBDA element :
                  LET child == navigateToValue(h, element, childPathSegments)
                  IN child.err = NoErr
                     /\ valueEquals(h, child.val, expectedValue))

\* Whether resolving the child value of some element panics.
filterPanics(h, array, childPathSegments) ==
    \E i \in 1..Len(array) :
        navigateToValue(h, array[i], childPathSegments).err = Panic

applyKeepArrayElementsIfChildValueMatchesRule(h, d, arrayPath, childPath, expectedValue, res) ==
    LET arrayPathSegments == Split(arrayPath, Dot)
        found == navigateToValue(h, d, arrayPathSegments)
    IN IF found.err # NoErr THEN Applied(h, found.err, NoFragment)
       ELSE IF found.val.t # "arr" THEN Applied(h, ErrNotArray, NoFragment)
       ELSE LET childPathSegments == Split(childPath, Dot)
                filteredArray == filterElements(h, found.val.v, childPathSegments,
                                                expectedValue)
            IN IF filterPanics(h, found.val.v, childPathSegments)
               THEN Applied(h, Panic, NoFragment)
               ELSE IF Len(filteredArray) > 0
               THEN Applied(buildResultStructure(h, res, arrayPathSegments,
                                                 Arr(filteredArray)),
                            NoErr,
                            Fragment(h, arrayPathSegments, Arr(filteredArray)))
               ELSE Applied(h, NoErr, NoFragment)

\* One iteration of the loop of applyRules: the switch on rule.Type.
applyRule(h, d, rule, res) ==
    CASE rule.Type = KeepPath -> applyKeepPathRule(h, d, rule.Path, res)
      [] rule.Type = KeepParentIfValueMatches ->
            applyKeepParentIfValueMatchesRule(h, d, rule.Path, rule.Value, res)
      [] rule.Type = KeepArrayElementsIfChildValueMatches ->
            applyKeepArrayElementsIfChildValueMatchesRule(
                h, d, rule.Path, rule.ChildPath, rule.Value, res)
      [] OTHER -> Applied(h, ErrInvalidRule, NoFragment)

----------------------------------------------------------------------------
(* Entry point, as one pure function (CutMultiple and Cut call it) *)

\* The input bytes: empty, not JSON, or the text of a JSON value.
EmptyInput == [kind |-> "empty", doc |-> Null]
MalformedInput == [kind |-> "malformed", doc |-> Null]
JsonText(tree) == [kind |-> "json", doc |-> tree]

\* A call's outcome: returned (with err and output) or panicked.
Returned(e, out) == [pc |-> "done", err |-> e, output |-> out]
Panicked == [pc |-> "panic", err |-> NoErr, output |-> Nil]

\* applyRules swallows ErrPathNotFound and returns every other error.
Fatal(e) == e # NoErr /\ e # ErrPathNotFound

RECURSIVE applyRulesFrom(_, _, _, _, _)
\* The loop of applyRules from rule i.
applyRulesFrom(h, d, rs, i, res) ==
    IF i > Len(rs) THEN [h |-> h, err |-> NoErr]
    ELSE LET r == applyRule(h, d, rs[i], res)
         IN IF Fatal(r.err) THEN [h |-> r.h, err |-> r.err]
            ELSE applyRulesFrom(r.h, d, rs, i + 1, res)

applyRules(h, d, rs) ==
    LET res == Len(h) + 1
        r == applyRulesFrom(Append(h, EmptyMap), d, rs, 1, res)
    IN [h |-> r.h, err |-> r.err, result |-> MapRef(res)]

CutWithRules(jd, rs) ==
    IF jd.kind = "empty" \/ jd.kind = "malformed"
    THEN Returned(ErrInvalidJSON, Nil)
    ELSE LET parsed == Unmarshal(<<>>, jd.doc)
             r == applyRules(parsed.h, parsed.v, rs)
         IN IF r.err = Panic THEN Panicked
            ELSE IF r.err # NoErr THEN Returned(r.err, Nil)
            ELSE Returned(NoErr, Marshal(r.h, r.result))

Cut(jd, path) == CutWithRules(jd, <<NewKeepPathRule(path)>>)

----------------------------------------------------------------------------
(* Strings of the documents and rules that are checked *)

s_user == <<"u", "s", "e", "r">>
s_name == <<"n", "a", "m", "e">>
s_age == <<"a", "g", "e">>
s_verified == <<"v", "e", "r", "i", "f", "i", "e", "d">>
s_address == <<"a", "d", "d", "r", "e", "s", "s">>
s_street == <<"s", "t", "r", "e", "e", "t">>
s_city == <<"c", "i", "t", "y">>
s_zipcode == <<"z", "i", "p", "c", "o", "d", "e">>
s_preferences == <<"p", "r", "e", "f", "e", "r", "e", "n", "c", "e", "s">>
s_theme == <<"t", "h", "e", "m", "e">>
s_notifications == <<"n", "o", "t", "i", "f", "i", "c", "a", "t", "i", "o", "n", "s">>
s_products == <<"p", "r", "o", "d", "u", "c", "t", "s">>
s_id == <<"i", "d">>
s_category == <<"c", "a", "t", "e", "g", "o", "r", "y">>
s_inStock == <<"i", "n", "S", "t", "o", "c", "k">>
s_a == <<"a">>
s_items == <<"i", "t", "e", "m", "s">>
s_f == <<"f">>
s_g == <<"g">>
s_n == <<"n">>
s_v == <<"v">>
s_m == <<"m">>
s_k == <<"k">>
s_t == <<"t">>
s_x == <<"x">>
s_nope == <<"n", "o", "p", "e">>
s_0 == <<"0">>
s_1 == <<"1">>
s_minus1 == <<"-", "1">>
s_minus == <<"-">>
s_empty == <<>>
\* 2^64 in decimal: Go's int wraps it to 0.
s_2pow64 == <<"1", "8", "4", "4", "6", "7", "4", "4", "0", "7", "3", "7", "0", "9", "5", "5", "1", "6", "1", "6">>

RECURSIVE Path(_)
\* strings.Join(segments, "."): the dotted path of a list of segments.
Path(segments) ==
    IF Len(segments) = 0 THEN <<>>
    ELSE IF Len(segments) = 1 THEN segments[1]
    ELSE segments[1] \o <<Dot>> \o Path(Tail(segments))

----------------------------------------------------------------------------
(* Documents *)

\* examples/rules_usage.md and the README: the example document.
ExampleUser ==
    Obj((s_name :> Str("John Doe")) @@ (s_age :> Num(30))
        @@ (s_verified :> Bool(TRUE))
        @@ (s_address :> Obj((s_street :> Str("123 Main St"))
                             @@ (s_city :> Str("Anytown"))
                             @@ (s_zipcode :> Str("12345"))))
        @@ (s_preferences :> Obj((s_theme :> Str("dark"))
                                 @@ (s_notifications :> Bool(TRUE)))))

Product(id, name, category, inStock) ==
    Obj((s_id :> Num(id)) @@ (s_name :> Str(name))
        @@ (s_category :> Str(category)) @@ (s_inStock :> Bool(inStock)))

ExampleProducts ==
    Arr(<<Product(101, "Laptop", "electronics", TRUE),
          Product(102, "Smartphone", "electronics", FALSE),
          Product(103, "Headphones", "accessories", TRUE)>>)

ExampleDoc == Obj((s_user :> ExampleUser) @@ (s_products :> ExampleProducts))

\* {"a":{"items":[{"f":1},{"f":2,"g":3}],"n":1,"0":5},"v":7,"m":[[1],[2]]}
NestedDoc ==
    Obj((s_a :> Obj((s_items :> Arr(<<Obj(s_f :> Num(1)),
                                      Obj((s_f :> Num(2)) @@ (s_g :> Num(3)))>>))
                    @@ (s_n :> Num(1)) @@ (s_0 :> Num(5))))
        @@ (s_v :> Num(7))
        @@ (s_m :> Arr(<<Arr(<<Num(1)>>), Arr(<<Num(2)>>)>>)))

\* [{"k":[{"f":1},{"f":2,"g":3}]}]
RootArrayDoc ==
    Arr(<<Obj(s_k :> Arr(<<Obj(s_f :> Num(1)),
                           Obj((s_f :> Num(2)) @@ (s_g :> Num(3)))>>))>>)

\* {"a":{"items":[{"f":1},{"f":2,"g":3,"t":[4]}]}}
ShiftDoc ==
    Obj(s_a :> Obj(s_items :> Arr(<<Obj(s_f :> Num(1)),
                                    Obj((s_f :> Num(2)) @@ (s_g :> Num(3))
                                        @@ (s_t :> Arr(<<Num(4)>>)))>>)))

----------------------------------------------------------------------------
(* Rule lists *)

KP(segments) == NewKeepPathRule(Path(segments))
KPV(segments, value) == NewKeepParentIfValueMatchesRule(Path(segments), value)
KA(segments, child, value) ==
    NewKeepArrayElementsIfChildValueMatchesRule(Path(segments), Path(child), value)
\* A rule of no known type.
UnknownRule == [Type |-> 3, Path |-> s_a, Value |-> Null, ChildPath |-> <<>>]

\* The rules of examples/rules_usage.md and of TestRules.
ExampleRules ==
    { KP(<<s_user, s_name>>), KP(<<s_user, s_age>>),
      KPV(<<s_user, s_verified>>, Bool(TRUE)),
      KPV(<<s_user, s_preferences, s_theme>>, Str("dark")),
      KA(<<s_products>>, <<s_inStock>>, Bool(TRUE)),
      KA(<<s_products>>, <<s_category>>, Str("electronics")),
      KA(<<s_user, s_name>>, <<s_x>>, Num(1)) }

\* Paths into the array of the example, and rules that select nothing.
ArrayPathRules ==
    { KP(<<s_products, s_0>>), KP(<<s_products, s_x>>),
      KP(<<s_products, s_empty>>), KP(<<s_nope>>),
      KPV(<<s_user, s_preferences, s_theme>>, Str("light")),
      KA(<<s_products>>, <<s_inStock>>, Str("none")),
      KPV(<<s_products, s_0, s_id>>, Num(101)) }

NestedRules ==
    { KP(<<s_a>>), KA(<<s_a, s_items>>, <<s_f>>, Num(2)), KP(<<s_a, s_0>>),
      KPV(<<s_v>>, Num(7)), KPV(<<s_a, s_n>>, Num(1)),
      KA(<<s_m>>, <<s_empty>>, Num(1)), UnknownRule }

FilterRules ==
    { KA(<<s_m>>, <<s_0>>, Num(1)), KA(<<s_m>>, <<s_x>>, Num(1)),
      KA(<<s_a, s_items>>, <<s_g>>, Num(3)), KA(<<s_v>>, <<s_f>>, Num(1)),
      KP(<<s_a, s_n>>), KP(<<s_a, s_items>>),
      KA(<<s_a, s_items>>, <<s_f>>, Num(1)), KP(<<s_a, s_0>>) }

RootArrayRules ==
    { KP(<<s_0>>), KP(<<s_minus1>>), KA(<<s_0, s_k>>, <<s_f>>, Num(2)),
      KP(<<s_empty>>), KP(<<s_minus>>), KP(<<s_2pow64>>),
      KP(<<s_0, s_k, s_1, s_g>>) }

\* Rules on the second element of a.items, with filters of a.items.
ShiftRules ==
    { KP(<<s_a>>), KA(<<s_a, s_items>>, <<s_f>>, Num(1)),
      KA(<<s_a, s_items>>, <<s_f>>, Num(2)),
      KA(<<s_a, s_items, s_1, s_g>>, <<s_x>>, Num(1)),
      KP(<<s_a, s_items, s_1, s_t, s_x>>), KP(<<s_a, s_items, s_1, s_g>>) }

Scenarios ==
    { [doc |-> JsonText(ExampleDoc), ruleset |-> ExampleRules],
      [doc |-> JsonText(ExampleDoc), ruleset |-> ArrayPathRules],
      [doc |-> JsonText(NestedDoc), ruleset |-> NestedRules],
      [doc |-> JsonText(NestedDoc), ruleset |-> FilterRules],
      [doc |-> JsonText(RootArrayDoc), ruleset |-> RootArrayRules],
      [doc |-> JsonText(ShiftDoc), ruleset |-> ShiftRules],
      [doc |-> EmptyInput, ruleset |-> {KP(<<s_a>>)}],
      [doc |-> MalformedInput, ruleset |-> {KP(<<s_a>>)}] }

MaxRules == 3
RuleLists(ruleset) == UNION {[1..n -> ruleset] : n \in 0..MaxRules}

\* No call of CutWithRules, of navigateToValue, of CutMultiple under way.
CallIdle ==
    /\ jsonData = EmptyInput /\ rules = <<>> /\ pc = "idle" /\ heap = <<>>
    /\ data = Nil /\ result = 0 /\ ri = 1 /\ err = NoErr /\ output = Nil
    /\ frags = <<>>
NavIdle == [pc |-> "idle"]
CmIdle == [pc |-> "idle"]
LoadIdle == [pc |-> "idle"]
CliIdle == [pc |-> "idle"]
ToolsIdle == load = LoadIdle /\ cli = CliIdle

----------------------------------------------------------------------------
(* CutWithRules as a state machine: one step per rule of applyRules *)

Init ==
    /\ \E sc \in Scenarios :
          /\ jsonData = sc.doc
          /\ rules \in RuleLists(sc.ruleset)
    /\ pc = "start"
    /\ heap = <<>>
    /\ data = Nil
    /\ result = 0
    /\ ri = 1
    /\ err = NoErr
    /\ output = Nil
    /\ frags = <<>>
    /\ nav = NavIdle
    /\ cm = CmIdle
    /\ ToolsIdle

\* CutWithRules up to the call of applyRules, and its make(map).
Parse ==
    /\ pc = "start"
    /\ IF jsonData.kind = "empty" \/ jsonData.kind = "malformed"
       THEN /\ pc' = "done"
            /\ err' = ErrInvalidJSON
            /\ UNCHANGED <<heap, data, result>>
       ELSE LET parsed == Unmarshal(<<>>, jsonData.doc)
            IN /\ heap' = Append(parsed.h, EmptyMap)
               /\ data' = parsed.v
               /\ result' = Len(parsed.h) + 1
               /\ pc' = "rules"
               /\ err' = NoErr
    /\ UNCHANGED <<jsonData, rules, ri, output, frags, nav, cm, toolVars>>

\* What the loop of applyRules does with the outcome r of a rule.
AfterRule(r) ==
    /\ heap' = r.h
    /\ frags' = Append(frags, [kept |-> r.frag.kept, path |-> r.frag.path,
                               val |-> r.frag.val, err |-> r.err])
    /\ IF r.err = Panic
       THEN pc' = "panic" /\ err' = NoErr /\ ri' = ri
       ELSE IF Fatal(r.err)
       THEN pc' = "done" /\ err' = r.err /\ ri' = ri
       ELSE pc' = "rules" /\ err' = NoErr /\ ri' = ri + 1
    /\ UNCHANGED <<jsonData, rules, data, result, output, nav, cm, toolVars>>

AtRule(type) == pc = "rules" /\ ri <= Len(rules) /\ rules[ri].Type = type

KeepPathStep ==
    /\ AtRule(KeepPath)
    /\ AfterRule(applyKeepPathRule(heap, data, rules[ri].Path, result))

KeepParentIfValueMatchesStep ==
    /\ AtRule(KeepParentIfValueMatches)
    /\ AfterRule(applyKeepParentIfValueMatchesRule(
                     heap, data, rules[ri].Path, rules[ri].Value, result))

KeepArrayElementsIfChildValueMatchesStep ==
    /\ AtRule(KeepArrayElementsIfChildValueMatches)
    /\ AfterRule(applyKeepArrayElementsIfChildValueMatchesRule(
                     heap, data, rules[ri].Path, rules[ri].ChildPath,
                     rules[ri].Value, result))

\* The default case of the switch.
UnknownRuleStep ==
    /\ pc = "rules" /\ ri <= Len(rules)
    /\ rules[ri].Type \notin {KeepPath, KeepParentIfValueMatches,
                              KeepArrayElementsIfChildValueMatches}
    /\ AfterRule(Applied(heap, ErrInvalidRule, NoFragment))

\* applyRules returns the result; CutWithRules marshals it.
Return ==
    /\ pc = "rules" /\ ri > Len(rules)
    /\ output' = Marshal(heap, MapRef(result))
    /\ pc' = "done"
    /\ UNCHANGED <<jsonData, rules, heap, data, result, ri, err, frags, nav, cm,
                   toolVars>>

Next ==
    \/ Parse
    \/ KeepPathStep
    \/ KeepParentIfValueMatchesStep
    \/ KeepArrayElementsIfChildValueMatchesStep
    \/ UnknownRuleStep
    \/ Return

Spec == Init /\ [][Next]_vars

\* The outcome of the call, once it has ended.
Ended == pc = "done" \/ pc = "panic"
Outcome == [pc |-> pc, err |-> err, output |-> output]

\* The state machine and the function agree.
SameAsFunction == Ended => Outcome = CutWithRules(jsonData, rules)

----------------------------------------------------------------------------
(* navigateToValue alone: one array, one segment *)

MaxArrayLen == 3
NumArray(n) == Arr([i \in 1..n |-> Num(10 * i)])
NavValues == {NumArray(n) : n \in 0..MaxArrayLen}

DigitChar(n) ==
    CASE n = 0 -> "0" [] n = 1 -> "1" [] n = 2 -> "2" [] n = 3 -> "3"
      [] n = 4 -> "4" [] n = 5 -> "5" [] n = 6 -> "6" [] n = 7 -> "7"
      [] n = 8 -> "8" [] n = 9 -> "9"
\* The decimal text of a one-digit integer.
IntToken(i) == IF i < 0 THEN <<"-", DigitChar(-i)>> ELSE <<DigitChar(i)>>
IndexTokens ==
    {IntToken(i) : i \in (-(MaxArrayLen + 2))..(MaxArrayLen + 2)}
        \cup {s_2pow64, <<"0", "0">>, <<"-", "0">>}
NavSegments == IndexTokens \cup {s_empty, s_minus, s_x, <<"1", "x">>}

InitNav ==
    /\ CallIdle
    /\ cm = CmIdle
    /\ ToolsIdle
    /\ \E x \in NavValues, sg \in NavSegments :
          nav = [pc |-> "call", value |-> x, segs |-> <<sg>>,
                 res |-> [err |-> NoErr, val |-> Nil]]

\* The JSON text `tree`, decoded and resolved at the path `segs`.
At(tree, segs) ==
    LET u == Unmarshal(<<>>, tree)
        r == navigateToValue(u.h, u.v, segs)
    IN [err |-> r.err,
        val |-> IF r.err = NoErr THEN Marshal(u.h, r.val) ELSE Nil]

Navigate ==
    /\ nav.pc = "call"
    /\ LET r == At(nav.value, nav.segs)
       IN nav' = [nav EXCEPT !.pc = IF r.err = Panic THEN "panic" ELSE "ret",
                             !.res = r]
    /\ UNCHANGED <<callVars, cm, toolVars>>

NextNav == Navigate

SpecNav == InitNav /\ [][NextNav]_vars

----------------------------------------------------------------------------
(* CutMultiple *)

MaxPaths == 2
MultipleInputs ==
    {JsonText(ExampleDoc), JsonText(RootArrayDoc), EmptyInput, MalformedInput}
MultiplePaths ==
    { Path(<<s_user, s_name>>), Path(<<s_products, s_0>>),
      Path(<<s_products, s_x>>), Path(<<s_products, s_empty>>),
      s_nope, s_0, s_empty }

InitMultiple ==
    /\ CallIdle
    /\ nav = NavIdle
    /\ ToolsIdle
    /\ \E jd \in MultipleInputs :
       \E ps \in UNION {[1..n -> MultiplePaths] : n \in 0..MaxPaths} :
          cm = [pc |-> "loop", jsonData |-> jd, paths |-> ps, i |-> 1,
                result |-> EmptyMap, err |-> NoErr]

\* The loop of CutMultiple calls CutWithRules with one KeepPath rule.
CutMultipleCall ==
    /\ cm.pc = "loop" /\ cm.i <= Len(cm.paths)
    /\ cm' = [cm EXCEPT !.pc = "call"]
    /\ jsonData' = cm.jsonData
    /\ rules' = <<NewKeepPathRule(cm.paths[cm.i])>>
    /\ pc' = "start"
    /\ heap' = <<>> /\ data' = Nil /\ result' = 0 /\ ri' = 1
    /\ err' = NoErr /\ output' = Nil /\ frags' = <<>>
    /\ UNCHANGED <<nav, toolVars>>

\* The call has ended: the entry of the path is set, or the panic goes on.
CutMultipleCollect ==
    /\ cm.pc = "call" /\ (pc = "done" \/ pc = "panic")
    /\ cm' = IF pc = "panic" THEN [cm EXCEPT !.pc = "panic"]
             ELSE [cm EXCEPT !.pc = "loop", !.i = @ + 1,
                             !.result = MapSet(@, cm.paths[cm.i],
                                               IF err # NoErr THEN Nil
                                               ELSE output)]
    /\ pc' = "idle"
    /\ UNCHANGED <<jsonData, rules, heap, data, result, ri, err, output,
                   frags, nav, toolVars>>

CutMultipleReturn ==
    /\ cm.pc = "loop" /\ cm.i > Len(cm.paths)
    /\ cm' = [cm EXCEPT !.pc = "done", !.err = NoErr]
    /\ UNCHANGED <<callVars, nav, toolVars>>

NextMultiple ==
    \/ CutMultipleCall
    \/ Parse
    \/ KeepPathStep
    \/ Return
    \/ CutMultipleCollect
    \/ CutMultipleReturn

SpecMultiple == InitMultiple /\ [][NextMultiple]_vars

----------------------------------------------------------------------------
(* config.go: LoadRulesFromConfig and buildRuleFromConfig *)

\* The zero value Rule{}.
ZeroRule == [Type |-> KeepPath, Path |-> <<>>, Value |-> Null, ChildPath |-> <<>>]

\* A string field of RuleConfig as json.Unmarshal sets it from the rule
\* object obj of the file: the member's value, or "" when it is absent.
StringField(obj, key) == IF key \in DOMAIN obj THEN obj[key] ELSE <<>>
\* RuleConfig, decoded from a rule object of the file.
RuleConfig(obj) ==
    [Type |-> StringField(obj, "type"), Where |-> StringField(obj, "where"),
     ChildPath |-> StringField(obj, "child_path"),
     Op |-> StringField(obj, "op"),
     Value |-> IF "value" \in DOMAIN obj THEN obj["value"] ELSE Null]

t_keep_path == <<"keep_path">>
t_keep_parent == <<"keep_parent_if_value_matches">>
t_keep_array == <<"keep_array_elements_if_child_value_matches">>
op_equals == <<"equals">>

ErrWhereRequired == "where is required"
ErrChildPathRequired == "child_path is required"
ErrOnlyEquals == "only the equals operator is supported"
ErrUnknownType == "unknown rule type"
ErrReadConfig == "cannot read the configuration file"
ErrParseConfig == "cannot parse the configuration file"

Built(rule) == [rule |-> rule, err |-> NoErr]
NotBuilt(e) == [rule |-> ZeroRule, err |-> e]

buildRuleFromConfig(config) ==
    CASE config.Type = t_keep_path -> Built(NewKeepPathRule(config.Where))
      [] config.Type = t_keep_parent ->
            IF config.Where = <<>> THEN NotBuilt(ErrWhereRequired)
            ELSE IF config.Op # op_equals THEN NotBuilt(ErrOnlyEquals)
            ELSE Built(NewKeepParentIfValueMatchesRule(config.Where,
                                                       config.Value))
      [] config.Type = t_keep_array ->
            IF config.Where = <<>> THEN NotBuilt(ErrWhereRequired)
            ELSE IF config.ChildPath = <<>> THEN NotBuilt(ErrChildPathRequired)
            ELSE IF config.Op # op_equals THEN NotBuilt(ErrOnlyEquals)
            ELSE Built(NewKeepArrayElementsIfChildValueMatchesRule(
                           config.Where, config.ChildPath, config.Value))
      [] OTHER -> NotBuilt(ErrUnknownType)

\* Rule objects of a configuration file.
p_a == s_a
p_an == Path(<<s_a, s_n>>)
p_items == Path(<<s_a, s_items>>)
ConfigObjects ==
    { [type |-> t_keep_path, where |-> p_a],
      [type |-> t_keep_path],
      [type |-> t_keep_path, where |-> p_a, op |-> <<"eq">>],
      [type |-> t_keep_parent, where |-> p_an, op |-> op_equals, value |-> Num(1)],
      [type |-> t_keep_parent, op |-> op_equals, value |-> Num(1)],
      [type |-> t_keep_parent, where |-> <<>>, op |-> op_equals, value |-> Num(1)],
      [type |-> t_keep_parent, where |-> p_an, op |-> <<"eq">>, value |-> Num(1)],
      [type |-> t_keep_parent, where |-> p_an, value |-> Num(1)],
      [type |-> t_keep_parent, where |-> p_an, op |-> op_equals],
      [type |-> t_keep_array, where |-> p_items, child_path |-> s_f,
       op |-> op_equals, value |-> Num(2)],
      [type |-> t_keep_array, where |-> p_items, op |-> op_equals,
       value |-> Num(2)],
      [type |-> t_keep_array, child_path |-> s_f, op |-> op_equals,
       value |-> Num(2)],
      [type |-> t_keep_array, where |-> p_items, child_path |-> s_f,
       op |-> <<"eq">>, value |-> Num(2)],
      [type |-> <<"bogus">>, where |-> p_a],
      [where |-> p_a] }

MaxConfigRules == 2
ConfigFiles ==
    {[kind |-> "unreadable"], [kind |-> "malformed"]}
      \cup {[kind |-> "json", rules |-> objs] :
              objs \in UNION {[1..n -> ConfigObjects] : n \in 0..MaxConfigRules}}

InitConfig ==
    /\ CallIdle /\ nav = NavIdle /\ cm = CmIdle /\ cli = CliIdle
    /\ \E file \in ConfigFiles :
          load = [pc |-> "start", file |-> file, config |-> <<>>, i |-> 1,
                  rules |-> <<>>, err |-> NoErr]

\* os.ReadFile and json.Unmarshal into RulesConfig.
ReadConfig ==
    /\ load.pc = "start"
    /\ load' =
         IF load.file.kind = "unreadable"
         THEN [load EXCEPT !.pc = "done", !.err = ErrReadConfig]
         ELSE IF load.file.kind = "malformed"
         THEN [load EXCEPT !.pc = "done", !.err = ErrParseConfig]
         ELSE [load EXCEPT !.pc = "loop",
                           !.config = [i \in 1..Len(load.file.rules)
                                          |-> RuleConfig(load.file.rules[i])]]
    /\ UNCHANGED <<callVars, nav, cm, cli>>

\* One iteration of the loop over config.Rules.
BuildRule ==
    /\ load.pc = "loop" /\ load.i <= Len(load.config)
    /\ LET built == buildRuleFromConfig(load.config[load.i])
       IN load' = IF built.err # NoErr
                  THEN [load EXCEPT !.pc = "done", !.rules = <<>>,
                                    !.err = built.err]
                  ELSE [load EXCEPT !.i = @ + 1,
                                    !.rules = Append(@, built.rule)]
    /\ UNCHANGED <<callVars, nav, cm, cli>>

LoadReturn ==
    /\ load.pc = "loop" /\ load.i > Len(load.config)
    /\ load' = [load EXCEPT !.pc = "done", !.err = NoErr]
    /\ UNCHANGED <<callVars, nav, cm, cli>>

NextConfig == ReadConfig \/ BuildRule \/ LoadReturn

SpecConfig == InitConfig /\ [][NextConfig]_vars

----------------------------------------------------------------------------
(* cmd/cut_json/main.go: buildRules *)

Comma == ","
Colon == ":"
EqualsSign == "="
Space == " "

RECURSIVE GoString(_)
\* The Go string of a sequence of characters.
GoString(chars) ==
    IF chars = <<>> THEN "" ELSE Head(chars) \o GoString(Tail(chars))

RECURSIVE TrimLeft(_)
TrimLeft(str) ==
    IF str # <<>> /\ Head(str) = Space THEN TrimLeft(Tail(str)) ELSE str
RECURSIVE TrimRight(_)
TrimRight(str) ==
    IF str # <<>> /\ str[Len(str)] = Space
    THEN TrimRight(SubSeq(str, 1, Len(str) - 1)) ELSE str
\* strings.TrimSpace, for strings whose only white space is the blank.
TrimSpace(str) == TrimRight(TrimLeft(str))

\* strings.Split(pair, sep) where strings.SplitN(pair, sep, 2) is meant.
SplitEvery(str, sep) == Split(str, sep)
\* strings.SplitN(str, sep, 2): split at the first separator, if any.
SplitN2(str, sep) ==
    IF \E i \in 1..Len(str) : str[i] = sep
    THEN LET i == CHOOSE i \in 1..Len(str) :
                     str[i] = sep /\ \A j \in 1..(i - 1) : str[j] # sep
         IN <<SubSeq(str, 1, i - 1), SubSeq(str, i + 1, Len(str))>>
    ELSE <<str>>

RECURSIVE Decimal(_, _)
Decimal(digits, acc) ==
    IF digits = <<>> THEN acc
    ELSE Decimal(Tail(digits), acc * 10 + DigitVal(Head(digits)))
\* A JSON integer literal: no sign and no leading zero other than "0".
IsNatLiteral(text) ==
    /\ text # <<>> /\ \A i \in 1..Len(text) : text[i] \in Digits
    /\ Len(text) > 1 => text[1] # "0"
\* json.Unmarshal([]byte(value), &parsedValue), for texts without white
\* space, quotes, brackets, braces, fractions and exponents.
UnmarshalText(text) ==
    CASE text = <<"t", "r", "u", "e">> -> [ok |-> TRUE, v |-> Bool(TRUE)]
      [] text = <<"f", "a", "l", "s", "e">> -> [ok |-> TRUE, v |-> Bool(FALSE)]
      [] text = <<"n", "u", "l", "l">> -> [ok |-> TRUE, v |-> Null]
      [] IsNatLiteral(text) -> [ok |-> TRUE, v |-> Num(Decimal(text, 0))]
      [] text # <<>> /\ Head(text) = "-" /\ IsNatLiteral(Tail(text)) ->
            [ok |-> TRUE, v |-> Num(-Decimal(Tail(text), 0))]
      [] OTHER -> [ok |-> FALSE, v |-> Null]
\* The value of a rule: the text as JSON, or else the text as a string.
parsedValue(value) ==
    LET parsed == UnmarshalText(value)
    IN IF parsed.ok THEN parsed.v ELSE Str(GoString(value))

RECURSIVE pathRules(_, _)
\* The loop over pathList.
pathRules(pathList, rs) ==
    IF pathList = <<>> THEN rs
    ELSE LET path == TrimSpace(Head(pathList))
         IN pathRules(Tail(pathList),
                      IF path # <<>> THEN Append(rs, NewKeepPathRule(path))
                      ELSE rs)

RECURSIVE keepIfValueRules(_, _)
\* The loop over the pairs of -keep-if-value.
keepIfValueRules(pairs, rs) ==
    IF pairs = <<>> THEN rs
    ELSE LET pair == TrimSpace(Head(pairs))
             parts == SplitN2(pair, EqualsSign)
         IN keepIfValueRules(
                Tail(pairs),
                IF pair = <<>> \/ Len(parts) # 2 THEN rs
                ELSE Append(rs, NewKeepParentIfValueMatchesRule(
                                    TrimSpace(parts[1]),
                                    parsedValue(TrimSpace(parts[2])))))

\* One pair of -keep-array-match: the rule list after it.
keepArrayMatchRule(pair, rs) ==
    LET pathParts == SplitN2(pair, Colon)
    IN IF pair = <<>> \/ Len(pathParts) # 2 THEN rs
       ELSE LET arrayPath == TrimSpace(pathParts[1])
                condition == TrimSpace(pathParts[2])
                condParts == SplitN2(condition, EqualsSign)
            IN IF Len(condParts) # 2 THEN rs
               ELSE Append(rs, NewKeepArrayElementsIfChildValueMatchesRule(
                                   arrayPath, TrimSpace(condParts[1]),
                                   parsedValue(TrimSpace(condParts[2]))))

RECURSIVE keepArrayMatchRules(_, _)
\* The loop over the pairs of -keep-array-match.
keepArrayMatchRules(pairs, rs) ==
    IF pairs = <<>> THEN rs
    ELSE keepArrayMatchRules(Tail(pairs),
                             keepArrayMatchRule(TrimSpace(Head(pairs)), rs))

RECURSIVE Join(_, _)
\* strings.Join
Join(tokens, sep) ==
    IF tokens = <<>> THEN <<>>
    ELSE IF Len(tokens) = 1 THEN tokens[1]
    ELSE tokens[1] \o <<sep>> \o Join(Tail(tokens), sep)

\* Tokens of the three flags.
PathTokens == {s_a, <<" ">> \o p_an \o <<" ">>, <<>>, <<" ">>}
ValueTokens ==
    { p_an \o <<"=", "1">>, s_v \o <<" ", "=", " ", "7">>, p_an,
      s_a \o <<"=">> \o s_f \o <<"=">> \o s_g, s_v \o <<"=", "t", "r", "u", "e">>,
      <<>> }
ArrayTokens ==
    { p_items \o <<":">> \o s_f \o <<"=", "2">>, p_items,
      p_items \o <<":">> \o s_f,
      <<" ">> \o s_m \o <<" ", ":", " ", "0", " ", "=", " ", "1", " ">>,
      s_a \o <<"=">> \o s_f \o <<":">> \o s_g,
      s_m \o <<":">> \o s_f \o <<":">> \o s_g \o <<"=", "-", "1">>, <<>> }

MaxTokens == 3
TokenLists(tokens, n) == UNION {[1..k -> tokens] : k \in 0..n}

InitCli ==
    /\ CallIdle /\ nav = NavIdle /\ cm = CmIdle /\ load = LoadIdle
    /\ \E ps \in TokenLists(PathTokens, MaxTokens) :
       \E vs \in TokenLists(ValueTokens, MaxTokens - Len(ps)) :
       \E as \in TokenLists(ArrayTokens, MaxTokens - Len(ps) - Len(vs)) :
          cli = [pc |-> "paths", paths |-> Join(ps, Comma),
                 keepIfValue |-> Join(vs, Comma),
                 keepArrayMatch |-> Join(as, Comma), rules |-> <<>>]

\* buildRules, rule 1: the -path flag.
BuildPathRules ==
    /\ cli.pc = "paths"
    /\ cli' = [cli EXCEPT
                 !.pc = "keepIfValue",
                 !.rules = IF cli.paths # <<>>
                           THEN pathRules(Split(cli.paths, Comma), @) ELSE @]
    /\ UNCHANGED <<callVars, nav, cm, load>>

\* buildRules, rule 2: the -keep-if-value flag.
BuildKeepIfValueRules ==
    /\ cli.pc = "keepIfValue"
    /\ cli' = [cli EXCEPT
                 !.pc = "keepArrayMatch",
                 !.rules = IF cli.keepIfValue # <<>>
                           THEN keepIfValueRules(Split(cli.keepIfValue, Comma), @)
                           ELSE @]
    /\ UNCHANGED <<callVars, nav, cm, load>>

\* buildRules, rule 3: the -keep-array-match flag, and the return.
BuildKeepArrayMatchRules ==
    /\ cli.pc = "keepArrayMatch"
    /\ cli' = [cli EXCEPT
                 !.pc = "done",
                 !.rules = IF cli.keepArrayMatch # <<>>
                           THEN keepArrayMatchRules(
                                    Split(cli.keepArrayMatch, Comma), @)
                           ELSE @]
    /\ UNCHANGED <<callVars, nav, cm, load>>

NextCli ==
    BuildPathRules \/ BuildKeepIfValueRules \/ BuildKeepArrayMatchRules

SpecCli == InitCli /\ [][NextCli]_vars

----------------------------------------------------------------------------
(* Claims *)

Segments(path) == Split(path, Dot)
IsPrefix(p, q) == Len(p) <= Len(q) /\ SubSeq(q, 1, Len(p)) = p
IsProperPrefix(p, q) == Len(p) < Len(q) /\ IsPrefix(p, q)
RemoveAt(s, k) == SubSeq(s, 1, k - 1) \o SubSeq(s, k + 1, Len(s))
Resolved(x) == [err |-> NoErr, val |-> x]

\* The call of CutWithRules is on a JSON document with exactly one rule.
SingleRule(type) ==
    jsonData.kind = "json" /\ Len(rules) = 1 /\ rules[1].Type = type
Succeeded == pc = "done" /\ err = NoErr
\* The rules that handed a fragment to buildResultStructure.
Kept == {k \in 1..Len(frags) : frags[k].kept}

\* C1: with the single rule KeepPath(p), p resolving in the document, the
\* call succeeds and its output, resolved again at p, is the document's
\* value at p.
C1_KeepPathRoundTrip ==
    (Ended /\ SingleRule(KeepPath)
        /\ At(jsonData.doc, Segments(rules[1].Path)).err = NoErr)
    => /\ Succeeded
       /\ At(output, Segments(rules[1].Path))
            = At(jsonData.doc, Segments(rules[1].Path))

\* An array-filter rule whose arrayPath resolves, in the document, to a
\* value that is not an array.
NonArrayFilter(r) ==
    /\ r.Type = KeepArrayElementsIfChildValueMatches
    /\ At(jsonData.doc, Segments(r.Path)).err = NoErr
    /\ At(jsonData.doc, Segments(r.Path)).val.t # "arr"

\* C2: a rule list holding an array-filter rule whose arrayPath resolves to
\* a non-array never yields output bytes, and the call, when it returns,
\* returns an error, wherever the rule stands in the list.
C2_NonArrayFilterAborts ==
    (jsonData.kind = "json" /\ \E k \in 1..Len(rules) : NonArrayFilter(rules[k]))
    => /\ output = Nil
       /\ pc = "done" => err # NoErr

\* The elements of the JSON array A whose child path resolves to v.
MatchingElements(A, childSegments, v) ==
    SelectSeq(A, LAMBDA e : At(e, childSegments) = Resolved(v))

\* C3: a single array-filter rule on an array A succeeds and writes at
\* arrayPath exactly the elements of A whose childPath resolves to a value
\* equal to v, whole and in order (nothing when there is none); an element
\* whose childPath does not resolve is left out without an error.
C3_FilterKeepsMatchingElements ==
    (Ended /\ SingleRule(KeepArrayElementsIfChildValueMatches)
        /\ At(jsonData.doc, Segments(rules[1].Path)).err = NoErr
        /\ At(jsonData.doc, Segments(rules[1].Path)).val.t = "arr")
    => /\ Succeeded
       /\ LET A == At(jsonData.doc, Segments(rules[1].Path)).val.v
              expected == MatchingElements(A, Segments(rules[1].ChildPath),
                                           rules[1].Value)
          IN IF expected = <<>>
             THEN At(output, Segments(rules[1].Path)).err # NoErr
             ELSE At(output, Segments(rules[1].Path)) = Resolved(Arr(expected))

\* The JSON value x is an object with the single key k.
OnlyKey(x, k) == x.t = "obj" /\ DOMAIN x.v = {k}

\* C4: a single KeepParentIfValueMatches(p, v) rule whose p resolves to v
\* yields the whole parent value at the parent path (the leaf at p when p has
\* one segment) and nothing outside the spine of that path.
C4_KeepParentKeepsWholeParent ==
    (Ended /\ SingleRule(KeepParentIfValueMatches)
        /\ At(jsonData.doc, Segments(rules[1].Path)) = Resolved(rules[1].Value))
    => /\ Succeeded
       /\ LET segs == Segments(rules[1].Path)
              kept == IF Len(segs) > 1 THEN SubSeq(segs, 1, Len(segs) - 1)
                      ELSE segs
          IN /\ At(output, kept) = At(jsonData.doc, kept)
             /\ \A n \in 0..(Len(kept) - 1) :
                   OnlyKey(At(output, SubSeq(kept, 1, n)).val, kept[n + 1])

\* The rule r selects nothing in the JSON document doc: its path is not
\* found, or (KeepParentIfValueMatches) the value found is not the expected
\* one, or (array filter) no element of the array has a child value that
\* resolves to the expected one.
SelectsNothing(doc, r) ==
    LET target == At(doc, Segments(r.Path))
    IN \/ target.err = ErrPathNotFound
       \/ /\ r.Type = KeepParentIfValueMatches
          /\ target.err = NoErr /\ target.val # r.Value
       \/ /\ r.Type = KeepArrayElementsIfChildValueMatches
          /\ target.err = NoErr /\ target.val.t = "arr"
          /\ MatchingElements(target.val.v, Segments(r.ChildPath), r.Value) = <<>>

KnownType(r) ==
    r.Type \in {KeepPath, KeepParentIfValueMatches,
                KeepArrayElementsIfChildValueMatches}

\* C5: a rule that selects nothing contributes nothing: the outcome of the
\* call is the outcome of the call on the rule list without that rule.
C5_NothingSelectedNothingContributed ==
    (Ended /\ jsonData.kind = "json")
    => \A k \in 1..Len(rules) :
          (KnownType(rules[k]) /\ SelectsNothing(jsonData.doc, rules[k]))
          => Outcome = CutWithRules(jsonData, RemoveAt(rules, k))

\* No selected fragment path is a prefix of, or equal to, another one.
NoPrefixAmongFragments ==
    \A j \in Kept : \A k \in Kept \ {j} : ~IsPrefix(frags[j].path, frags[k].path)

\* C6: when no selected fragment path is a prefix of another, the output
\* resolved at each selected fragment path is that fragment's value.
C6_MergeKeepsEveryFragment ==
    (Succeeded /\ output # Nil /\ NoPrefixAmongFragments)
    => \A k \in Kept : At(output, frags[k].path) = Resolved(frags[k].val)

\* The paths of the members of the objects of a JSON value, an element of
\* an array being reached by the decimal text of its index.
RECURSIVE KeyPaths(_)
KeyPaths(x) ==
    CASE x.t = "obj" ->
            UNION {{<<k>>} \cup {<<k>> \o q : q \in KeyPaths(x.v[k])}
                   : k \in DOMAIN x.v}
      [] x.t = "arr" ->
            UNION {{<<IntToken(i - 1)>> \o q : q \in KeyPaths(x.v[i])}
                   : i \in 1..Len(x.v)}
      [] OTHER -> {}

\* The path q of the output lies at or below the path of fragment k, inside
\* that fragment's value.
InsideFragment(q, k) ==
    /\ IsPrefix(frags[k].path, q)
    /\ At(frags[k].val, SubSeq(q, Len(frags[k].path) + 1, Len(q))).err = NoErr

\* C7: the output is an object, every key path of which is a proper prefix
\* of a selected fragment's path or lies inside a selected fragment; with
\* zero rules it is the empty object.
C7_OutputIsMinimal ==
    (Succeeded /\ output # Nil)
    => /\ output.t = "obj"
       /\ \A q \in KeyPaths(output) :
             \E k \in Kept : IsProperPrefix(q, frags[k].path) \/ InsideFragment(q, k)
       /\ rules = <<>> => DOMAIN output.v = {}

\* A segment that is the decimal text of an integer.
IsIntegerToken(seg) ==
    /\ Len(seg) > (IF Len(seg) > 0 /\ seg[1] = "-" THEN 1 ELSE 0)
    /\ \A i \in 1..Len(seg) : seg[i] \in Digits \/ (i = 1 /\ seg[i] = "-")

\* Larger than every index of the arrays that are checked.
Huge == 10 * (MaxArrayLen + 2)
RECURSIVE Magnitude(_, _)
\* The number a digit string denotes, or Huge if it is larger.
Magnitude(digits, acc) ==
    IF digits = <<>> THEN acc
    ELSE LET n == acc * 10 + DigitVal(Head(digits))
         IN Magnitude(Tail(digits), IF n > Huge THEN Huge ELSE n)
TokenValue(seg) ==
    IF seg[1] = "-" THEN -Magnitude(Tail(seg), 0) ELSE Magnitude(seg, 0)

\* C8: on an array of length N an index -k, 1 <= k <= N, resolves to the
\* element of index N-k; an index below -N, or N or larger, is not found.
C8_NegativeIndexing ==
    (nav.pc \in {"ret", "panic"} /\ nav.value.t = "arr" /\ Len(nav.segs) = 1
        /\ IsIntegerToken(nav.segs[1]))
    => LET N == Len(nav.value.v)
           i == TokenValue(nav.segs[1])
       IN /\ nav.pc = "ret"
          /\ (0 <= i /\ i < N) => nav.res = Resolved(nav.value.v[i + 1])
          /\ (-N <= i /\ i < 0)
                => /\ nav.res = Resolved(nav.value.v[N + i + 1])
                   /\ nav.res = At(nav.value, <<IntToken(N + i)>>)
          /\ (i < -N \/ i >= N) => nav.res.err = ErrPathNotFound

\* C9: CutMultiple never aborts: it returns no error and one entry per
\* distinct path, null exactly when the call of CutWithRules with the one
\* rule KeepPath(path) fails, and that call's bytes otherwise.
C9_CutMultipleNeverAborts ==
    /\ cm.pc # "panic"
    /\ cm.pc = "done"
          => /\ cm.err = NoErr
             /\ DOMAIN cm.result = {cm.paths[i] : i \in 1..Len(cm.paths)}
             /\ \A q \in DOMAIN cm.result :
                   LET cut == CutWithRules(cm.jsonData, <<NewKeepPathRule(q)>>)
                   IN cm.result[q] = IF cut.pc = "done" /\ cut.err = NoErr
                                     THEN cut.output ELSE Nil

\* examples/rules_usage.md, "combining several rules".
ExampleCombination ==
    << KP(<<s_user, s_name>>), KPV(<<s_user, s_verified>>, Bool(TRUE)),
       KA(<<s_products>>, <<s_inStock>>, Bool(TRUE)) >>

\* C10: the combination of the example yields a user object with exactly
\* the fields name and verified, and the products 101 and 103 in that order.
C10_CombinedExample ==
    (Ended /\ jsonData = JsonText(ExampleDoc) /\ rules = ExampleCombination)
    => /\ Succeeded
       /\ DOMAIN output.v = {s_user, s_products}
       /\ DOMAIN output.v[s_user].v = {s_name, s_verified}
       /\ [i \in 1..Len(output.v[s_products].v)
              |-> output.v[s_products].v[i].v[s_id]] = <<Num(101), Num(103)>>

\* The main path (path or arrayPath) of rule r addresses an array of the
\* document with a segment that has a non-digit character.
InvalidMainPath(r) ==
    KnownType(r) /\ At(jsonData.doc, Segments(r.Path)).err = ErrInvalidPath

\* A single array-filter rule on an array, the childPath of which meets an
\* array inside some element with a segment that has a non-digit character.
InvalidChildPath ==
    /\ SingleRule(KeepArrayElementsIfChildValueMatches)
    /\ LET target == At(jsonData.doc, Segments(rules[1].Path))
       IN /\ target.err = NoErr /\ target.val.t = "arr"
          /\ \E i \in 1..Len(target.val.v) :
                At(target.val.v[i], Segments(rules[1].ChildPath)).err
                    = ErrInvalidPath

\* C11: a rule list holding a rule with such a main path never yields
\* output, and the call returns an error (ErrInvalidPath when the rule is
\* the only one); such a childPath inside an element never fails the call.
C11_InvalidPathFatalOnMainPathOnly ==
    /\ (jsonData.kind = "json"
            /\ \E k \in 1..Len(rules) : InvalidMainPath(rules[k]))
       => /\ output = Nil
          /\ pc = "done" => err # NoErr
          /\ (pc = "done" /\ Len(rules) = 1) => err = ErrInvalidPath
    /\ (Ended /\ InvalidChildPath) => Succeeded

\* C12: the error a call returns is nil or one of ErrInvalidJSON,
\* ErrInvalidPath and ErrInvalidRule, never ErrPathNotFound; an unknown rule
\* type and a non-array arrayPath, as the only rule, give ErrInvalidRule.
C12_FailuresAreTyped ==
    pc = "done"
    => /\ err \in {NoErr, ErrInvalidJSON, ErrInvalidPath, ErrInvalidRule}
       /\ (jsonData.kind = "json" /\ Len(rules) = 1
            /\ (~KnownType(rules[1]) \/ NonArrayFilter(rules[1])))
          => err = ErrInvalidRule

\* The member key of the rule object obj is missing (absent or empty).
Missing(obj, key) == key \notin DOMAIN obj \/ obj[key] = <<>>
\* What the rule-file format rejects in the rule object obj.
RejectedObject(obj) ==
    LET type == StringField(obj, "type")
    IN \/ type \notin {t_keep_path, t_keep_parent, t_keep_array}
       \/ Missing(obj, "where")
       \/ type = t_keep_array /\ Missing(obj, "child_path")
       \/ type \in {t_keep_parent, t_keep_array}
            /\ StringField(obj, "op") # op_equals
\* The rule an accepted rule object stands for.
RuleOfObject(obj) ==
    LET value == IF "value" \in DOMAIN obj THEN obj["value"] ELSE Null
    IN CASE obj["type"] = t_keep_path -> NewKeepPathRule(obj["where"])
         [] obj["type"] = t_keep_parent ->
               NewKeepParentIfValueMatchesRule(obj["where"], value)
         [] OTHER ->
               NewKeepArrayElementsIfChildValueMatchesRule(
                   obj["where"], obj["child_path"], value)

\* C13: loading a rule file fails exactly when one of its rule objects has
\* an unknown type, a missing required field or, for a conditional type, an
\* op other than "equals"; otherwise it returns the rules in file order.
C13_RuleFileValidation ==
    (load.pc = "done" /\ load.file.kind = "json")
    => LET objs == load.file.rules
       IN IF \E i \in 1..Len(objs) : RejectedObject(objs[i])
          THEN load.err # NoErr /\ load.rules = <<>>
          ELSE /\ load.err = NoErr
               /\ load.rules = [i \in 1..Len(objs) |-> RuleOfObject(objs[i])]

\* The position of the first c in str, 0 if there is none.
FirstIndex(str, c) ==
    IF \E i \in 1..Len(str) : str[i] = c
    THEN CHOOSE i \in 1..Len(str) : str[i] = c /\ \A j \in 1..(i - 1) : str[j] # c
    ELSE 0
\* The comma-separated tokens of a flag, without the blanks around them and
\* without the empty ones.
FlagTokens(flag) ==
    LET pieces == Split(flag, Comma)
    IN SelectSeq([i \in 1..Len(pieces) |-> TrimSpace(pieces[i])],
                 LAMBDA token : token # <<>>)
HasEquals(token) == FirstIndex(token, EqualsSign) > 0
HasColonThenEquals(token) ==
    LET c == FirstIndex(token, Colon)
    IN c > 0 /\ \E i \in (c + 1)..Len(token) : token[i] = EqualsSign
\* The rule of a path=value token.
ValueTokenRule(token) ==
    LET e == FirstIndex(token, EqualsSign)
    IN NewKeepParentIfValueMatchesRule(
           TrimSpace(SubSeq(token, 1, e - 1)),
           parsedValue(TrimSpace(SubSeq(token, e + 1, Len(token)))))
\* The rule of an arrayPath:childPath=value token.
ArrayTokenRule(token) ==
    LET c == FirstIndex(token, Colon)
        condition == SubSeq(token, c + 1, Len(token))
        e == FirstIndex(condition, EqualsSign)
    IN NewKeepArrayElementsIfChildValueMatchesRule(
           TrimSpace(SubSeq(token, 1, c - 1)),
           TrimSpace(SubSeq(condition, 1, e - 1)),
           parsedValue(TrimSpace(SubSeq(condition, e + 1, Len(condition)))))

\* C14: buildRules returns one KeepPath rule per non-empty -path token,
\* then one KeepParentIfValueMatches rule per -keep-if-value token with an
\* '=', then one array-filter rule per -keep-array-match token with a ':'
\* and an '=' after it, each group in token order, and nothing else.
C14_BuildRulesOneRulePerToken ==
    cli.pc = "done"
    => LET pathTokens == FlagTokens(cli.paths)
           valueTokens == SelectSeq(FlagTokens(cli.keepIfValue), HasEquals)
           arrayTokens == SelectSeq(FlagTokens(cli.keepArrayMatch),
                                    HasColonThenEquals)
       IN cli.rules =
            [i \in 1..Len(pathTokens) |-> NewKeepPathRule(pathTokens[i])]
            \o [i \in 1..Len(valueTokens) |-> ValueTokenRule(valueTokens[i])]
            \o [i \in 1..Len(arrayTokens) |-> ArrayTokenRule(arrayTokens[i])]

\* C14 witness: a KeepPath rule and an array-filter rule were built and the
\* token of -keep-if-value, which has no '=', gave none.
C14_Witness ==
    /\ cli.pc = "done" /\ Len(cli.rules) = 2
    /\ cli.rules[1].Type = KeepPath
    /\ cli.rules[2].Type = KeepArrayElementsIfChildValueMatches
    /\ FlagTokens(cli.keepIfValue) # <<>>

\* C15: while and after the rules are applied, the parsed document is the
\* document as it was parsed.
C15_DocumentNeverModified ==
    (jsonData.kind = "json" /\ pc \in {"rules", "done", "panic"})
    => Marshal(heap, data) = jsonData.doc

\* C16: navigateToValue never crashes and returns a value, ErrPathNotFound
\* or ErrInvalidPath; on an array, a segment that is not an optional '-'
\* followed by at least one digit gives ErrInvalidPath.
C16_NavigateIsTotal ==
    /\ nav.pc # "panic"
    /\ nav.pc = "ret"
          => /\ nav.res.err \in {NoErr, ErrPathNotFound, ErrInvalidPath}
             /\ (nav.value.t = "arr" /\ ~IsIntegerToken(nav.segs[1]))
                   => nav.res.err = ErrInvalidPath

\* The output paths at which rule r selects a fragment of the document doc:
\* none, or the one path its fragment is written at.
SelectedPaths(doc, r) ==
    LET segs == Segments(r.Path)
        target == At(doc, segs)
    IN IF ~KnownType(r) \/ SelectsNothing(doc, r) \/ target.err # NoErr
       THEN {}
       ELSE IF r.Type = KeepParentIfValueMatches /\ Len(segs) > 1
       THEN {SubSeq(segs, 1, Len(segs) - 1)}
       ELSE IF r.Type = KeepArrayElementsIfChildValueMatches
               /\ target.val.t # "arr"
       THEN {}
       ELSE {segs}
\* No two rules of the list select fragments at the same output path,
\* nor at paths one of which is a prefix of the other.
NoSameLocation ==
    \A i, j \in 1..Len(rules) :
        i # j => \A p1 \in SelectedPaths(jsonData.doc, rules[i]),
                    p2 \in SelectedPaths(jsonData.doc, rules[j]) :
                    ~IsPrefix(p1, p2)
Orders(n) ==
    {q \in [1..n -> 1..n] : \A i, j \in 1..n : q[i] = q[j] => i = j}

\* C17, for the rule lists in which the selected output paths are not even
\* prefixes of each other (such as KeepPath("a.b") with KeepPath("a.0")):
\* a call that succeeds on such a list returns the output that every
\* successful call on a permutation of the list returns.
C17_OrderMattersOnlyAtSameLocation ==
    (Succeeded /\ jsonData.kind = "json" /\ NoSameLocation)
    => \A q \in Orders(Len(rules)) :
          LET cut == CutWithRules(jsonData, [i \in 1..Len(rules) |-> rules[q[i]]])
          IN (cut.pc = "done" /\ cut.err = NoErr) => cut.output = output

\* The fragment rule r selects in the document doc, when it selects one.
SelectedValue(doc, r) ==
    LET segs == Segments(r.Path)
        target == At(doc, segs)
    IN IF r.Type = KeepArrayElementsIfChildValueMatches
       THEN Arr(MatchingElements(target.val.v, Segments(r.ChildPath), r.Value))
       ELSE IF r.Type = KeepParentIfValueMatches /\ Len(segs) > 1
       THEN At(doc, SubSeq(segs, 1, Len(segs) - 1)).val
       ELSE target.val

\* C18: when the two rules of a call select fragments at the same output
\* path, the output holds at that path the fragment of the second rule.
C18_LastRuleWins ==
    (Succeeded /\ jsonData.kind = "json" /\ Len(rules) = 2
        /\ SelectedPaths(jsonData.doc, rules[1]) # {}
        /\ SelectedPaths(jsonData.doc, rules[1])
             = SelectedPaths(jsonData.doc, rules[2]))
    => \A q \in SelectedPaths(jsonData.doc, rules[2]) :
          At(output, q) = Resolved(SelectedValue(jsonData.doc, rules[2]))

====
